---------------------------- MODULE Spec2Model ----------------------------
(***************************************************************************)
(* File-based locking of GPU devices (gpu_lock).                           *)
(*                                                                         *)
(* Independent processes coordinate through one JSON file per device id in *)
(* a shared directory.  A process builds lock handles (_GPULock,           *)
(* _MultiGPULock, lock_gpu), enters them (record creation plus the         *)
(* CUDA_VISIBLE_DEVICES update) and exits them (the reverse).  The         *)
(* filesystem calls of __enter__ and __exit__ are steps of their own, so   *)
(* the calls of different processes interleave.  Both implementations of   *)
(* the repository are modelled: the package ("hardened", with the GPUtil   *)
(* check) and the single-file module ("minimal").                          *)
(*                                                                         *)
(* File access rights are outside the model: every process may read,       *)
(* create and unlink every file of the lock directory, as processes that   *)
(* the permission bits do not restrict (the user name of a process comes   *)
(* from getpass.getuser(), which reads the environment first).             *)
(***************************************************************************)
EXTENDS Integers, Sequences, FiniteSets, TLC

\* ------------------------------------------------------------- bounds
\* Processes (pids)
NumProc == 2
\* Device ids of the machine
NumDev == 2
\* Lock objects that exist at a time, of all processes together
MaxHandles == 2
\* Latest clock reading
MaxTime == 1
\* Devices process 1 asks for in one call; the other processes ask for one
MaxCount == 2

\* ---------------------------------------------------------- constants
\* load > 0.1 and memutil > 0.1, in percent
Threshold == 10

Procs == 1..NumProc
Devs == 0..(NumDev - 1)
Users == {"alice", "bob"}
Variants == {"hardened", "minimal"}
\* Utilisation values the oracle reports, in percent
Levels == {5, 10, 50}

VARIABLES
    variant,    \* which implementation runs
    user,       \* getpass.getuser() of each process
    alive,      \* whether the pid exists (os.kill(pid, 0) succeeds)
    now,        \* int(time.time()), as of its latest reading
    files,      \* LOCKDIR/gpu_<uid>.json of each device id
    environ,    \* os.environ["CUDA_VISIBLE_DEVICES"] of each process
    handles,    \* the lock objects each process holds a reference to
    op          \* the call each process is inside, and where

vars == <<variant, user, alive, now, files, environ, handles, op>>

\* ------------------------------------------------------------ strings
\* A str is a sequence of one-character strings.
Range(s) == {s[i] : i \in DOMAIN s}

RECURSIVE SplitAcc(_, _, _)
SplitAcc(s, cur, acc) ==
    IF s = <<>> THEN Append(acc, cur)
    ELSE IF Head(s) = "," THEN SplitAcc(Tail(s), <<>>, Append(acc, cur))
    ELSE SplitAcc(Tail(s), Append(cur, Head(s)), acc)

\* str.split(",")
Split(s) == SplitAcc(s, <<>>, <<>>)

\* str.replace(" ", "")
RemoveSpaces(s) == SelectSeq(s, LAMBDA c : c # " ")

RECURSIVE Join(_)
\* ",".join(tokens), the tokens in the order given
Join(toks) ==
    IF toks = <<>> THEN <<>>
    ELSE IF Len(toks) = 1 THEN toks[1]
    ELSE toks[1] \o <<",">> \o Join(Tail(toks))

\* The order in which a set is iterated: one of its enumerations
Orders(S) == {CHOOSE q \in [1..Cardinality(S) -> S] : Range(q) = S}

\* str(uid), for uid < 10
Str(uid) == <<ToString(uid)>>

\* os.environ has no CUDA_VISIBLE_DEVICES entry
Unset == <<"unset">>

\* _parse_visible_devices(); the caller has checked the variable is set
parse_visible_devices(p) == Range(Split(RemoveSpaces(environ[p])))

\* The values _set_visible_devices(visible_devices) may store: the set is
\* joined in its iteration order.  The program reads the variable back
\* through _parse_visible_devices only, which gives the same set for every
\* order, so one order stands for all.
set_visible_devices(S) == {Join(q) : q \in Orders(S)}

\* ------------------------------------------------------------- records
\* The path does not exist
NoFile == [kind |-> "absent"]
\* A file opened for writing and not yet written: an empty document
Truncated == [kind |-> "empty"]

IsRecord(f) == f.kind = "json"

\* json.dump({...}) of _create_lock
LockRecord(p, d, t) ==
    IF variant = "hardened"
    THEN [kind |-> "json", user |-> user[p], time |-> t, uid |-> d, owner |-> p,
          version |-> "version"]
    ELSE [kind |-> "json", user |-> user[p], time |-> t, uid |-> d, owner |-> p]

\* Fault: the probe takes every pid for a running process
check_pid_alive_always(pid) == TRUE

\* os.kill(pid, 0) raises no OSError
check_pid_alive(pid) == alive[pid]

\* What GPUtil reports of one device: gpus[uid].load and .memoryUtil.
\* The oracle is outside the program: each query may return any reading.
Readings == [load : Levels, memoryUtil : Levels]

\* The readings drawn for a scan of the pool: an idle and a busy device
ScanReadings == {r \in Readings : r.load = r.memoryUtil /\ r.load # Threshold}

\* Fault: _verify_gpu_not_busy raises when either value is over the threshold
GpuBusy_either(r) ==
    /\ variant = "hardened"
    /\ (r.load > Threshold \/ r.memoryUtil > Threshold)

\* _verify_gpu_not_busy raises RuntimeError on reading r; the minimal
\* variant does not ask
GpuBusy(r) ==
    /\ variant = "hardened"
    /\ r.load > Threshold
    /\ r.memoryUtil > Threshold

\* Fault: the renewal branch is never taken, a record of one's own goes
\* through the liveness probe
RenewCond_never(p, f) == FALSE

\* The first branch of check_lock_availability: the old lock is renewed
RenewCond(p, f) ==
    IF variant = "hardened" THEN f.owner = p
    ELSE f.user = user[p] \/ f.owner = p

\* After the record-based decision: the oracle check
Verified(r, branch, didProbe) ==
    IF GpuBusy(r)
    THEN [res |-> "RuntimeError", branch |-> branch, probed |-> didProbe, rogue |-> TRUE]
    ELSE [res |-> "ok", branch |-> branch, probed |-> didProbe, rogue |-> FALSE]

\* Fault: check_lock_availability takes a file it cannot parse for a stale
\* record
check_lock_availability_lenient(p, d, r) ==
    LET f == files[d] IN
    IF f = NoFile THEN Verified(r, "absent", FALSE)
    ELSE IF f = Truncated THEN Verified(r, "stale", FALSE)
    ELSE IF RenewCond(p, f) THEN Verified(r, "self", FALSE)
    ELSE IF ~check_pid_alive(f.owner) THEN Verified(r, "stale", TRUE)
    ELSE [res |-> "RuntimeError", branch |-> "busy", probed |-> TRUE, rogue |-> FALSE]

\* check_lock_availability of the lock of process p on device d, on the
\* current files and with r the oracle's reading of d: how it ends, the
\* branch taken, whether os.kill was called
check_lock_availability(p, d, r) ==
    LET f == files[d] IN
    IF f = NoFile THEN Verified(r, "absent", FALSE)
    ELSE IF f = Truncated
    THEN [res |-> "JSONDecodeError", branch |-> "corrupt", probed |-> FALSE, rogue |-> FALSE]
    ELSE IF RenewCond(p, f) THEN Verified(r, "self", FALSE)
    ELSE IF ~check_pid_alive(f.owner) THEN Verified(r, "stale", TRUE)
    ELSE [res |-> "RuntimeError", branch |-> "busy", probed |-> TRUE, rogue |-> FALSE]


\* ------------------------------------------------------------- handles
\* A lock object the caller holds: a _GPULock has one device, a
\* _MultiGPULock the devices of its locks in order.
\* st: new, entering, held, exiting.  A handle whose __exit__ has returned
\* or whose __enter__ or __exit__ has raised is dropped by its caller.
Handle(multi, uids) == [multi |-> multi, uids |-> uids, st |-> "new"]

\* lost: the path was unlinked since this process opened it for writing.
\* intf: the path was unlinked by another process since this process's check.
\* branch, probed: the branch the latest check of this call took, and
\* whether it called os.kill; they stay until the process's next call.
\* res: how the latest __enter__ or __exit__ ended: ok, or the exception.
Idle ==
    [step |-> "idle", h |-> 0, i |-> 0, lost |-> FALSE, intf |-> FALSE,
     branch |-> "none", probed |-> FALSE, res |-> "ok"]

Begin(step, h, i) == [Idle EXCEPT !.step = step, !.h = h, !.i = i]

\* The device of the lock a process is working on
CurDev(p) == handles[p][op[p].h].uids[op[p].i]

CanStart(p) == alive[p] /\ op[p].step = "idle"


RECURSIVE ScanSwallow(_, _, _, _, _, _)
\* Fault: the loop catches every exception ("except Exception"), not
\* RuntimeError alone
ScanSwallow(p, n, uid, pool, acc, g) ==
    IF uid >= pool THEN [res |-> "ok", uids |-> acc]
    ELSE IF check_lock_availability(p, uid, g[uid]).res = "ok"
    THEN IF Len(acc) + 1 = n
         THEN [res |-> "ok", uids |-> Append(acc, uid)]
         ELSE ScanSwallow(p, n, uid + 1, pool, Append(acc, uid), g)
    ELSE ScanSwallow(p, n, uid + 1, pool, acc, g)

RECURSIVE Scan(_, _, _, _, _, _)
\* The loop "for uid in range(n_system_gpus)" of lock_gpu and of
\* _MultiGPULock.__init__, g[uid] being the oracle's reading when uid is
\* checked: the uids collected, and the error that left the loop
Scan(p, n, uid, pool, acc, g) ==
    IF uid >= pool THEN [res |-> "ok", uids |-> acc]
    ELSE LET c == check_lock_availability(p, uid, g[uid]) IN
         IF c.res = "ok"
         THEN IF Len(acc) + 1 = n
              THEN [res |-> "ok", uids |-> Append(acc, uid)]
              ELSE Scan(p, n, uid + 1, pool, Append(acc, uid), g)
         ELSE IF c.res = "RuntimeError"
         THEN Scan(p, n, uid + 1, pool, acc, g)
         ELSE [res |-> c.res, uids |-> acc]

\* Fault: _MultiGPULock.__init__ without its final count test
lock_gpu_unchecked(p, n, pool, g) ==
    LET s == Scan(p, n, 0, pool, <<>>, g) IN
    IF s.res # "ok" THEN [res |-> s.res, uids |-> <<>>]
    ELSE IF n = 1 /\ s.uids = <<>>
    THEN [res |-> IF variant = "hardened" THEN "RuntimeError" ELSE "None", uids |-> <<>>]
    ELSE [res |-> "handle", uids |-> s.uids]

\* What lock_gpu(n, n_system_gpus) gives its caller: a handle, None or an error
lock_gpu(p, n, pool, g) ==
    LET s == Scan(p, n, 0, pool, <<>>, g) IN
    IF s.res # "ok" THEN [res |-> s.res, uids |-> <<>>]
    ELSE IF n = 1
    THEN IF s.uids # <<>> THEN [res |-> "handle", uids |-> s.uids]
         ELSE IF variant = "hardened" THEN [res |-> "RuntimeError", uids |-> <<>>]
         ELSE [res |-> "None", uids |-> <<>>]
    ELSE IF Len(s.uids) < n THEN [res |-> "RuntimeError", uids |-> <<>>]
    ELSE [res |-> "handle", uids |-> s.uids]

\* The lock objects that exist, of all processes
LiveHandles == UNION {{<<p, h>> : h \in DOMAIN handles[p]} : p \in Procs}

\* The counts a process asks for
Counts(p) == IF p = 1 THEN 1..MaxCount ELSE {1}

\* Fault: lock_gpu writes the record of each device it selects
LockGpu_creating(p, n, pool, g) ==
    /\ CanStart(p)
    /\ Cardinality(LiveHandles) < MaxHandles
    /\ LET r == lock_gpu(p, n, pool, g) IN
       /\ handles' = [handles EXCEPT ![p] =
             IF r.res = "handle" THEN Append(@, Handle(n # 1, r.uids)) ELSE @]
       /\ files' = [d \in Devs |->
             IF r.res = "handle" /\ d \in Range(r.uids)
             THEN LockRecord(p, d, now) ELSE files[d]]
    /\ UNCHANGED <<variant, user, alive, now, environ, op>>

\* lock = lock_gpu(n, n_system_gpus)
LockGpu(p, n, pool, g) ==
    /\ CanStart(p)
    /\ Cardinality(LiveHandles) < MaxHandles
    /\ LET r == lock_gpu(p, n, pool, g) IN
       handles' = [handles EXCEPT ![p] =
             IF r.res = "handle" THEN Append(@, Handle(n # 1, r.uids)) ELSE @]
    /\ UNCHANGED <<variant, user, alive, now, files, environ, op>>

\* handles[p] without its h-th handle
Drop(p, h) == [i \in 1..(Len(handles[p]) - 1) |->
                  IF i < h THEN handles[p][i] ELSE handles[p][i + 1]]

\* Exception e leaves __enter__ or __exit__
Raise(p, e) ==
    /\ handles' = [handles EXCEPT ![p] = Drop(p, op[p].h)]
    /\ op' = [op EXCEPT ![p] = [Idle EXCEPT !.res = e]]

\* The call returns
Return(p, st) ==
    handles' = [handles EXCEPT ![p] =
        IF st = "exited" THEN Drop(p, op[p].h) ELSE [@ EXCEPT ![op[p].h].st = st]]

\* with lock: / lock.__enter__()
Enter(p, h) ==
    /\ CanStart(p)
    /\ h \in DOMAIN handles[p]
    /\ handles[p][h].st = "new"
    /\ IF handles[p][h].uids = <<>>
       THEN /\ handles' = [handles EXCEPT ![p][h].st = "held"]
            /\ op' = op
       ELSE /\ handles' = [handles EXCEPT ![p][h].st = "entering"]
            /\ op' = [op EXCEPT ![p] = Begin("check", h, 1)]
    /\ UNCHANGED <<variant, user, alive, now, files, environ>>

\* _acquire_lock: self.check_lock_availability()
AcqCheck(p, r) ==
    /\ alive[p] /\ op[p].step = "check"
    /\ LET c == check_lock_availability(p, CurDev(p), r) IN
       IF c.res = "ok"
       THEN /\ op' = [op EXCEPT ![p].step = "exists", ![p].branch = c.branch,
                                ![p].probed = c.probed]
            /\ handles' = handles
       ELSE Raise(p, c.res)
    /\ UNCHANGED <<variant, user, alive, now, files, environ>>

\* _acquire_lock: if self.lock.exists()
AcqExists(p) ==
    /\ alive[p] /\ op[p].step = "exists"
    /\ op' = [op EXCEPT ![p].step = IF files[CurDev(p)] # NoFile THEN "remove" ELSE "create"]
    /\ UNCHANGED <<variant, user, alive, now, files, environ, handles>>

\* What os.remove of the file of d by p means to process q, when q is
\* inside _acquire_lock on d
Unlinked(p, d, q) ==
    IF q # p /\ op[q].step \in {"exists", "remove", "create", "write"} /\ CurDev(q) = d
    THEN [op[q] EXCEPT !.intf = TRUE, !.lost = (op[q].step = "write")]
    ELSE op[q]

\* op after a step of p on device d: p moves to newOp, and an unlink is
\* seen by the others
OpAfter(p, newOp, d, unlinks) ==
    [q \in Procs |-> IF q = p THEN newOp
                     ELSE IF unlinks THEN Unlinked(p, d, q) ELSE op[q]]

\* The lock at op[p].i has finished its __enter__ or __exit__: the loop of
\* _MultiGPULock goes to the next lock, or the call returns
Finish(p, nextStep, st, unlinks) ==
    LET h == op[p].h
        i == op[p].i IN
    IF i < Len(handles[p][h].uids)
    THEN /\ op' = OpAfter(p, Begin(nextStep, h, i + 1), CurDev(p), unlinks)
         /\ handles' = handles
    ELSE /\ op' = OpAfter(p, [Idle EXCEPT !.branch = op[p].branch, !.probed = op[p].probed],
                         CurDev(p), unlinks)
         /\ Return(p, st)

\* _acquire_lock: os.remove(str(self.lock))
AcqRemove(p) ==
    /\ alive[p] /\ op[p].step = "remove"
    /\ IF files[CurDev(p)] = NoFile
       THEN /\ Raise(p, "FileNotFoundError")
            /\ files' = files
       ELSE /\ files' = [files EXCEPT ![CurDev(p)] = NoFile]
            /\ op' = OpAfter(p, [op[p] EXCEPT !.step = "create"], CurDev(p), TRUE)
            /\ handles' = handles
    /\ UNCHANGED <<variant, user, alive, now, environ>>

\* _create_lock: open(str(self.lock), mode="w")
CreateOpen(p) ==
    /\ alive[p] /\ op[p].step = "create"
    /\ files' = [files EXCEPT ![CurDev(p)] = Truncated]
    /\ op' = [op EXCEPT ![p].step = "write", ![p].lost = FALSE]
    /\ UNCHANGED <<variant, user, alive, now, environ, handles>>

\* _add_uid_visible_devices: the set to store
add_uid_visible_devices(p, d) ==
    IF environ[p] = Unset THEN {Str(d)}
    ELSE parse_visible_devices(p) \cup {Str(d)}

\* Fault: _remove_uid_visible_devices stores the set it has read
remove_uid_visible_devices_keep(p, d) == parse_visible_devices(p)

\* _remove_uid_visible_devices: the set to store
remove_uid_visible_devices(p, d) == parse_visible_devices(p) \ {Str(d)}

\* os.environ after _set_visible_devices(S) in process p
Stored(p, S) == {[environ EXCEPT ![p] = v] : v \in set_visible_devices(S)}

\* _create_lock: json.dump(...) at time t, the close of the file and
\* os.chmod(...); then __enter__: _add_uid_visible_devices().
\* What is written to an unlinked file does not reach the path, and chmod
\* of a path that does not exist raises.
CreateWrite(p, t) ==
    /\ alive[p] /\ op[p].step = "write"
    /\ t \in {now, now + 1}
    /\ now' = t
    /\ IF op[p].lost /\ files[CurDev(p)] = NoFile
       THEN /\ Raise(p, "FileNotFoundError")
            /\ UNCHANGED <<files, environ>>
       ELSE /\ files' = IF op[p].lost THEN files
                        ELSE [files EXCEPT ![CurDev(p)] = LockRecord(p, CurDev(p), t)]
            /\ environ' \in Stored(p, add_uid_visible_devices(p, CurDev(p)))
            /\ Finish(p, "check", "held", FALSE)
    /\ UNCHANGED <<variant, user, alive>>

\* lock.__exit__(...), at the end of the with block
Exit(p, h) ==
    /\ CanStart(p)
    /\ h \in DOMAIN handles[p]
    /\ handles[p][h].st = "held"
    /\ IF handles[p][h].uids = <<>>
       THEN /\ handles' = [handles EXCEPT ![p] = Drop(p, h)]
            /\ op' = op
       ELSE /\ handles' = [handles EXCEPT ![p][h].st = "exiting"]
            /\ op' = [op EXCEPT ![p] = Begin("release", h, 1)]
    /\ UNCHANGED <<variant, user, alive, now, files, environ>>

\* _remove_uid_visible_devices raises KeyError: the variable is unset
\* (os.environ[...]) or the id is not in the set (set.remove)
RemoveRaises(p, d) ==
    IF environ[p] = Unset THEN TRUE ELSE Str(d) \notin parse_visible_devices(p)

\* __exit__: _remove_uid_visible_devices(); _release_lock: os.path.exists
ExitRelease(p) ==
    /\ alive[p] /\ op[p].step = "release"
    /\ IF RemoveRaises(p, CurDev(p))
       THEN /\ Raise(p, "KeyError")
            /\ environ' = environ
       ELSE /\ environ' \in Stored(p, remove_uid_visible_devices(p, CurDev(p)))
            /\ IF files[CurDev(p)] # NoFile
               THEN /\ op' = [op EXCEPT ![p].step = "unlink"]
                    /\ handles' = handles
               ELSE Finish(p, "release", "exited", FALSE)
    /\ UNCHANGED <<variant, user, alive, now, files>>

\* Fault: _release_lock writes the file when it finds none
release_lock_touch(fs, d) ==
    IF fs[d] # NoFile THEN [fs EXCEPT ![d] = NoFile] ELSE [fs EXCEPT ![d] = Truncated]

\* _release_lock() of a lock on d, run without interruption on the files fs:
\* the files it leaves
release_lock(fs, d) ==
    IF fs[d] # NoFile THEN [fs EXCEPT ![d] = NoFile] ELSE fs

\* _release_lock: os.remove(str(self.lock))
ExitUnlink(p) ==
    /\ alive[p] /\ op[p].step = "unlink"
    /\ IF files[CurDev(p)] = NoFile
       THEN /\ Raise(p, "FileNotFoundError")
            /\ files' = files
       ELSE /\ files' = [files EXCEPT ![CurDev(p)] = NoFile]
            /\ Finish(p, "release", "exited", TRUE)
    /\ UNCHANGED <<variant, user, alive, now, environ>>

\* ------------------------------------------------------ the environment
\* The process dies: its memory (objects, os.environ) is gone, its files stay
Crash(p) ==
    /\ alive[p]
    /\ alive' = [alive EXCEPT ![p] = FALSE]
    /\ handles' = [handles EXCEPT ![p] = <<>>]
    /\ op' = [op EXCEPT ![p] = Idle]
    /\ environ' = [environ EXCEPT ![p] = Unset]
    /\ UNCHANGED <<variant, user, now, files>>

Init ==
    /\ variant \in Variants
    /\ user \in [Procs -> Users]
    /\ user[1] = "alice"
    /\ variant = "hardened" => \A p \in Procs : user[p] = (IF p = 1 THEN "alice" ELSE "bob")
    /\ alive = [p \in Procs |-> TRUE]
    /\ now = 0
    /\ files = [d \in Devs |-> NoFile]
    /\ environ = [p \in Procs |-> Unset]
    /\ handles = [p \in Procs |-> <<>>]
    /\ op = [p \in Procs |-> Idle]

Next ==
    \/ \E p \in Procs : \E n \in Counts(p), pool \in 0..NumDev, g \in [Devs -> ScanReadings] :
          LockGpu(p, n, pool, g)
    \/ \E p \in Procs, h \in 1..MaxHandles : Enter(p, h)
    \/ \E p \in Procs, r \in Readings : AcqCheck(p, r)
    \/ \E p \in Procs : AcqExists(p)
    \/ \E p \in Procs : AcqRemove(p)
    \/ \E p \in Procs : CreateOpen(p)
    \/ \E p \in Procs, t \in 0..MaxTime : CreateWrite(p, t)
    \/ \E p \in Procs, h \in 1..MaxHandles : Exit(p, h)
    \/ \E p \in Procs : ExitRelease(p)
    \/ \E p \in Procs : ExitUnlink(p)
    \/ \E p \in Procs : Crash(p)

Spec == Init /\ [][Next]_vars

\* ------------------------------------------------------------ notions
\* p is in the held state for d: a handle of p on d has entered and its
\* __exit__ has not been called
Holding(p, d) ==
    /\ alive[p]
    /\ \E h \in DOMAIN handles[p] :
          handles[p][h].st = "held" /\ d \in Range(handles[p][h].uids)

\* The visible-device set of p
Visible(p) == IF environ[p] = Unset THEN {} ELSE parse_visible_devices(p)

\* The record of d names p as its owner
OwnedBy(d, p) == IsRecord(files[d]) /\ files[d].owner = p

\* The record of d names a live process other than p
ForeignLive(p, d) ==
    /\ IsRecord(files[d])
    /\ files[d].owner # p
    /\ alive[files[d].owner]

\* The record of d names a dead process other than p
ForeignDead(p, d) ==
    /\ IsRecord(files[d])
    /\ files[d].owner # p
    /\ ~alive[files[d].owner]

AcquireSteps == {"check", "exists", "remove", "create", "write"}
ExitSteps == {"release", "unlink"}

\* The handle p is entering or exiting
CurHandle(p) == handles[p][op[p].h]

\* This step is p's check_lock_availability inside __enter__
CheckStep(p) == op[p].step = "check" /\ op'[p] # op[p] /\ alive'[p]

\* This step is p's write of the record, at the end of _create_lock
WriteStep(p) == op[p].step = "write" /\ op'[p].step # "write" /\ alive'[p]

\* With this step p's __enter__ ends / raises / returns
EnterEnds(p) == op[p].step \in AcquireSteps /\ op'[p].step = "idle" /\ alive'[p]
EnterRaises(p) == EnterEnds(p) /\ op'[p].res # "ok"
EnterReturns(p) == EnterEnds(p) /\ op'[p].res = "ok"

\* With this step p's __exit__ ends / returns
ExitEnds(p) == op[p].step \in ExitSteps /\ op'[p].step = "idle" /\ alive'[p]
ExitReturns(p) == ExitEnds(p) /\ op'[p].res = "ok"

\* The visible-device set of p after the step
VisibleNext(p) == IF environ'[p] = Unset THEN {} ELSE Range(Split(RemoveSpaces(environ'[p])))

\* ------------------------------------------------------------- claims
\* C1: mutual exclusion: in every reachable state at most one live process
\* is in the held state for any given device id.
C1_MutualExclusion ==
    \A d \in Devs : \A p, q \in Procs : Holding(p, d) /\ Holding(q, d) => p = q

\* C2: when the __exit__ of an entered Single-Device Lock on d returns, no
\* Lock Record file exists for d and str(d) is not in the visible-device set.
C2_EnterExitLeavesNothing ==
    [][\A p \in Procs :
          (ExitReturns(p) /\ ~CurHandle(p).multi) =>
              /\ files'[CurHandle(p).uids[1]] = NoFile
              /\ Str(CurHandle(p).uids[1]) \notin VisibleNext(p)]_vars

\* C2 witness: a process has entered and exited its only lock: its variable
\* is set and empty, and no file is left
C2_Witness ==
    \E p \in Procs :
        /\ alive[p]
        /\ environ[p] = <<>>
        /\ handles[p] = <<>>
        /\ op[p] = Idle
        /\ \A d \in Devs : files[d] = NoFile


\* The device ids of 0..pool-1 whose check passes, with readings g
AvailableIds(p, pool, g) ==
    {d \in Devs : d < pool /\ check_lock_availability(p, d, g[d]).res = "ok"}

\* A record of 0..pool-1 that cannot be parsed
CorruptIn(pool) == \E d \in Devs : d < pool /\ files[d] = Truncated

Min(S) == CHOOSE x \in S : \A y \in S : x <= y

\* The record of d names p as its owner after the step
OwnedByNext(d, p) == IsRecord(files'[d]) /\ files'[d].owner = p

\* C3: when the record of d names a live owner other than the caller, the
\* check of __enter__ raises RuntimeError and the files are as before.
C3_ForeignLiveRefused ==
    [][\A p \in Procs :
          (CheckStep(p) /\ ForeignLive(p, CurDev(p))) =>
              /\ op'[p].step = "idle"
              /\ op'[p].res = "RuntimeError"
              /\ files' = files]_vars

ConstructorStep == op' = op /\ alive' = alive

C7_MultiEnterAllOrNothing ==
    [][\A p \in Procs :
          (EnterRaises(p) /\ CurHandle(p).multi) =>
              \A d \in Range(CurHandle(p).uids) :
                  ~OwnedByNext(d, p) /\ Str(d) \notin VisibleNext(p)]_vars

C9_AllBusyRaises ==
    \A p \in Procs : CanStart(p) =>
      \A pool \in 1..NumDev : \A g \in [Devs -> ScanReadings] :
        AvailableIds(p, pool, g) = {} =>
            lock_gpu(p, 1, pool, g).res \notin {"handle", "None"}

\* C10: when __exit__ of a lock ends, by return or by exception, no record
\* owned by the process remains for a device of the lock and none of the
\* lock's ids is visible.
C10_ExitCompletes ==
    [][\A p \in Procs :
          ExitEnds(p) =>
              \A d \in Range(CurHandle(p).uids) :
                  ~OwnedByNext(d, p) /\ Str(d) \notin VisibleNext(p)]_vars

\* The ids of S in ascending order
Asc(S) == CHOOSE q \in [1..Cardinality(S) -> S] :
              Range(q) = S /\ \A i, k \in DOMAIN q : i < k => q[i] < q[k]

\* The n lowest ids of S, all of S when it has fewer
Lowest(S, n) == {d \in S : Cardinality({e \in S : e < d}) < n}

\* C11: a lock that lock_gpu(n, pool) constructs, for n >= 0, holds exactly
\* the n lowest available ids of the pool in ascending order; and ids after
\* the n-th available one are not examined: an unparseable record there
\* does not keep the lock from being constructed.
C11_MultiHoldsExactlyN ==
    \A p \in Procs : CanStart(p) =>
      \A pool \in 0..NumDev : \A g \in [Devs -> ScanReadings] :
        \A n \in 0..(NumDev + 1) :
          LET A == AvailableIds(p, pool, g)
              l == lock_gpu(p, n, pool, g) IN
          /\ l.res = "handle" =>
                (Cardinality(A) >= n /\ l.uids = Asc(Lowest(A, n)))
          /\ (/\ Cardinality(A) >= n
              /\ \A d \in Devs : (d < pool /\ files[d] = Truncated) =>
                                     \A e \in Lowest(A, n) : e < d)
             => l.res = "handle"

\* This step is p's _remove_uid_visible_devices, the first statement of the
\* __exit__ of a lock
RemoveStep(p) == alive[p] /\ op[p].step = "release" /\ op'[p] # op[p] /\ alive'[p]

\* C12: _remove_uid_visible_devices of an id that is not in the visible-device
\* set (or with the variable unset) raises no error and leaves the set as it is.
C12_RemoveAbsentIsNoOp ==
    [][\A p \in Procs :
          (RemoveStep(p) /\ Str(CurDev(p)) \notin Visible(p)) =>
              /\ op'[p].res # "KeyError"
              /\ VisibleNext(p) = Visible(p)]_vars

\* This step is p's _add_uid_visible_devices, the last statement of the
\* __enter__ of a lock
AddStep(p) == WriteStep(p) /\ op'[p].res = "ok"

\* C13: with V the visible-device set before the step, the __enter__ of a
\* lock on d sets the set to V \cup {str(d)} and its __exit__ sets it to
\* V \ {str(d)}: every other id of V, a sibling lock's included, stays.
C13_ReadModifyWrite ==
    [][\A p \in Procs :
          /\ AddStep(p) => VisibleNext(p) = Visible(p) \cup {Str(CurDev(p))}
          /\ RemoveStep(p) => VisibleNext(p) = Visible(p) \ {Str(CurDev(p))}]_vars

RecordPasses(p, d) ==
    \/ files[d] = NoFile
    \/ OwnedBy(d, p)
    \/ ForeignDead(p, d)

\* The oracle reports both values of r over the threshold
BothOver(r) == r.load > Threshold /\ r.memoryUtil > Threshold

\* C15 (hardened variant): check_lock_availability decides on the record
\* first and asks the oracle second.  A record of another live process fails
\* the check whatever the oracle reports; when the record-based decision
\* passes (record absent, self-owned or stale) the check fails with
\* RuntimeError if both load and memory utilization are over 10%, and passes
\* if at most one of them is.  The failing check of an __enter__ leaves every
\* file and the visible-device set as they were.
C15_OracleBusyCheck ==
    /\ [](variant = "hardened" =>
            \A p \in Procs : \A d \in Devs : \A r \in Readings :
               LET c == check_lock_availability(p, d, r) IN
               /\ ForeignLive(p, d) => (c.res = "RuntimeError" /\ ~c.rogue)
               /\ (RecordPasses(p, d) /\ BothOver(r)) =>
                     (c.res = "RuntimeError" /\ c.rogue)
               /\ (RecordPasses(p, d) /\ ~BothOver(r)) => c.res = "ok"
               /\ ForeignDead(p, d) => c.probed)
    /\ [][variant = "hardened" =>
            \A p \in Procs :
               (CheckStep(p) /\ RecordPasses(p, CurDev(p)) /\ op'[p].step = "idle") =>
                   /\ op'[p].res = "RuntimeError"
                   /\ files' = files
                   /\ environ' = environ]_vars

\* C15 witness: the __enter__ of a process has ended with RuntimeError and
\* no other process has ever written a record: the oracle refused it
C15_Witness ==
    /\ variant = "hardened"
    /\ \E p \in Procs :
          /\ alive[p]
          /\ op[p].step = "idle"
          /\ op[p].res = "RuntimeError"
          /\ \A q \in Procs \ {p} : alive[q] /\ environ[q] = Unset /\ handles[q] = <<>>

\* With this step p's _release_lock returns: it has found no file, or it
\* has removed the file it found
ReleaseReturns(p) ==
    \/ RemoveStep(p) /\ op'[p].res # "KeyError" /\ op'[p].step # "unlink"
    \/ /\ alive[p] /\ op[p].step = "unlink" /\ op'[p] # op[p] /\ alive'[p]
       /\ op'[p].res # "FileNotFoundError"

\* C16: _release_lock on a device whose file is absent raises no error and
\* changes no file, and releasing twice leaves what releasing once leaves.
\* In a run, the _release_lock that finds no file returns without error and
\* leaves all files as they were, and every _release_lock that returns has
\* on the files the effect of one release.
C16_ReleaseIdempotent ==
    /\ [](\A d \in Devs :
             /\ files[d] = NoFile => release_lock(files, d) = files
             /\ release_lock(release_lock(files, d), d) = release_lock(files, d))
    /\ [][\A p \in Procs :
             /\ (RemoveStep(p) /\ op'[p].res # "KeyError" /\ files[CurDev(p)] = NoFile) =>
                    /\ ReleaseReturns(p)
                    /\ op'[p].res = "ok"
                    /\ files' = files
             /\ ReleaseReturns(p) =>
                    /\ files' = release_lock(files, CurDev(p))
                    /\ release_lock(files', CurDev(p)) = files']_vars

\* C16 witness: a process is in the __exit__ of a lock it has entered, the
\* id of the device is in its visible-device set and the file of the device
\* is gone: its _release_lock finds no file
C16_Witness ==
    \E p \in Procs :
        /\ alive[p]
        /\ op[p].step = "release"
        /\ Str(CurDev(p)) \in Visible(p)
        /\ files[CurDev(p)] = NoFile

\* C17: in every reachable state, when a live process is in the held state
\* for device d, the Lock Record file of d exists and its owner is that
\* process.
C17_HolderHasRecord ==
    \A p \in Procs : \A d \in Devs : Holding(p, d) => OwnedBy(d, p)

\* This step is the os.remove of p's _release_lock, and it removes the file
UnlinkStep(p) ==
    /\ alive[p] /\ op[p].step = "unlink" /\ op'[p] # op[p] /\ alive'[p]
    /\ files[CurDev(p)] # NoFile
    /\ files'[CurDev(p)] = NoFile

\* C18: the os.remove of a process's _release_lock never deletes a Lock
\* Record file whose owner is another live process.
C18_ReleaseOwnRecordOnly ==
    [][\A p \in Procs : UnlinkStep(p) => ~ForeignLive(p, CurDev(p))]_vars

\* The devices of handle h of p whose id the handle has added to the
\* visible-device set and not yet removed from it
Asserted(p, h) ==
    LET u == handles[p][h].uids
        st == handles[p][h].st IN
    IF st = "held" THEN Range(u)
    ELSE IF st = "entering" THEN {u[k] : k \in {j \in DOMAIN u : j < op[p].i}}
    ELSE IF st = "exiting"
    THEN {u[k] : k \in {j \in DOMAIN u :
                          IF op[p].step = "unlink" THEN j > op[p].i ELSE j >= op[p].i}}
    ELSE {}

\* The id strings of the devices p holds
HeldIds(p) == {Str(d) : d \in UNION {Asserted(p, h) : h \in DOMAIN handles[p]}}

\* The visible-device set of p is the set of ids of the devices it holds
Mirror(p) == Visible(p) = HeldIds(p)

\* C19: from an unset variable, after any sequence of __enter__ and __exit__
\* calls of one process that succeed, the parsed visible-device set is the
\* set of id strings of the devices the process holds, and holds no empty
\* string.  It is so at the start, with the variable unset and nothing held;
\* stated of one step: an _add_uid_visible_devices or
\* _remove_uid_visible_devices that does not raise, taken where the two sets
\* are equal, leaves them equal.
C19_VisibleMirrorsHeld ==
    [][\A p \in Procs :
          (Mirror(p) /\ (AddStep(p) \/ (RemoveStep(p) /\ op'[p].res # "KeyError"))) =>
              Mirror(p)']_vars

\* The steps of __enter__ and __exit__ that write: os.remove, open,
\* json.dump and the two rewritings of the visible-device set
WritingSteps == {"remove", "create", "write", "release", "unlink"}

\* C20: lock_gpu, the construction of a _MultiGPULock and
\* check_lock_availability create, delete and modify no Lock Record file and
\* leave the visible-device set as it is, whether they return or raise;
\* the files and the set of a running process change only in the steps of
\* an __enter__ or __exit__ after its check.
C20_SelectionHasNoEffect ==
    [][/\ ConstructorStep => (files' = files /\ environ' = environ)
       /\ \A p \in Procs : CheckStep(p) => (files' = files /\ environ' = environ)
       /\ (files' # files \/ (environ' # environ /\ alive' = alive)) =>
             \E p \in Procs : alive[p] /\ op[p].step \in WritingSteps /\ op'[p] # op[p]]_vars

\* C20 witness: a lock has been constructed and not entered, by a process
\* whose visible-device set is set, while a record exists
C20_Witness ==
    \E p \in Procs : \E h \in DOMAIN handles[p] : \E d \in Devs :
        /\ alive[p]
        /\ handles[p][h].st = "new"
        /\ op[p].step = "idle"
        /\ environ[p] # Unset
        /\ IsRecord(files[d])

=============================================================================
